---- MODULE Spec2Model ----
(***************************************************************************)
(* Reaction kinetics core of the 0D global model (src/reactions/reaction.py)*)
(*                                                                         *)
(* A Reaction is built from a Species registry, and then evaluated on      *)
(* state vectors [n_0, ..., n_{N-1}, T_e, T_monoato, T_diato].             *)
(*                                                                         *)
(* Conventions of the model                                                *)
(*   - numpy arrays and Python lists are sequences; the code's 0-based     *)
(*     index i is position i + 1 of the sequence (operator At).            *)
(*   - floats are integers; masses are counted in units of m_e and         *)
(*     energies in units of k_B, so m_e and k_B are both 1.  A quotient    *)
(*     (m_e / mass) is kept exact: a power is the pair <<num, den>>.       *)
(*   - an optional argument (default None) is a sequence of length 0       *)
(*     (None) or 1 (the value supplied).                                   *)
(*   - a call that raises yields the name of the exception.                *)
(***************************************************************************)
EXTENDS Integers, Sequences, FiniteSets, TLC

VARIABLES
    pc,       \* position of the caller: "start", "ready", "returned", "raised", "done"
    species,  \* the Species registry the caller built
    ctor,     \* the arguments of the last constructor call
    self,     \* the Reaction object (meaningful once construction succeeded)
    call,     \* the method call in progress or just finished: [op, state]
    result,   \* what the last call returned or raised
    Klog      \* arguments handed to rate_constant during the last call, in order

vars == <<pc, species, ctor, self, call, result, Klog>>

(***************************************************************************)
(* Bounds of the model                                                     *)
(***************************************************************************)
MaxListLen == 2      \* reactives / products lists have at most this many names
MaxDensity == 1      \* density vectors start at 0 .. MaxDensity

(***************************************************************************)
(* Physical constants (scipy.constants), in the units of the model         *)
(***************************************************************************)
m_e == 1
k_B == 1

\* temperature slots of a state vector: T_e, T_monoato, T_diato
NbTemps == 3

(***************************************************************************)
(* Optional arguments                                                      *)
(***************************************************************************)
None == <<>>
Some(x) == <<x>>
IsNone(o) == Len(o) = 0
Get(o) == o[1]

(***************************************************************************)
(* Arrays                                                                  *)
(***************************************************************************)
At(a, i) == a[i + 1]
InRange(a, i) == i >= 0 /\ i < Len(a)
np_zeros(n) == [k \in 1..n |-> 0]
np_array(list) == [k \in 1..Len(list) |-> list[k]]
Store(a, i, v) == [a EXCEPT ![i + 1] = v]
Slice(a, from) == [k \in 1..(Len(a) - from) |-> a[from + k]]

RECURSIVE Sum(_)
Sum(a) == IF Len(a) = 0 THEN 0 ELSE a[1] + Sum(Tail(a))

RECURSIVE Max(_)
Max(a) == IF Len(a) = 1 THEN a[1]
          ELSE LET m == Max(Tail(a)) IN IF a[1] > m THEN a[1] ELSE m

\* np.prod(state[indices]): the product of the entries selected by a list of indices
RECURSIVE np_prod(_, _)
np_prod(a, indices) ==
    IF Len(indices) = 0 THEN 1
    ELSE At(a, indices[1]) * np_prod(a, Tail(indices))

Range(s) == {s[k] : k \in 1..Len(s)}

(***************************************************************************)
(* Species registry (src/specie.py)                                        *)
(***************************************************************************)
Specie(name, mass, nb_atoms) == [name |-> name, mass |-> mass, nb_atoms |-> nb_atoms]

\* The registry of the model: the electron, an atom and a diatomic molecule.
PlasmaSpecies == << Specie("e", 1, 0), Specie("I", 2, 1), Specie("I2", 4, 2) >>

\* The registry of the self-test (mass 10.57e-27 kg is 11604 m_e).
SelfTestSpecies ==
    << Specie("I0", 11604, 0), Specie("I1", 11604, 0), Specie("I2", 11604, 0),
       Specie("I3", 11604, 0), Specie("I4", 11604, 0), Specie("I5", 11604, 0) >>

nb(sps) == Len(sps)
HasName(sps, name) == \E k \in 1..Len(sps) : sps[k].name = name
get_specie_by_name(sps, name) == sps[CHOOSE k \in 1..Len(sps) : sps[k].name = name]
get_index_by_instance(sps, sp) == (CHOOSE k \in 1..Len(sps) : sps[k] = sp) - 1

(***************************************************************************)
(* Rate-constant functions handed to a Reaction.  K_diss_I2 is the one of   *)
(* the self-test; K_sum depends on every entry of its argument, so that     *)
(* the argument it is called with shows in the value it returns.            *)
(***************************************************************************)
K_diss_I2(Ts) == 2
K_sum(arg) == Sum(arg)
rate_constant_call(f, arg) == IF f = "K_diss_I2" THEN K_diss_I2(arg) ELSE K_sum(arg)

(***************************************************************************)
(* Reaction.__init__                                                       *)
(***************************************************************************)
NoReaction ==
    [cls |-> "none", species |-> <<>>, reactives |-> <<>>, reactives_indices |-> <<>>,
     products |-> <<>>, products_indices |-> <<>>, stoechio_coeffs |-> <<>>,
     energy_threshold |-> 0, rate_constant |-> "", spectators |-> None]

\* Mutant of ResolveNames: names the registry does not hold are skipped
Known(sps, names) == SelectSeq(names, LAMBDA name : HasName(sps, name))
ResolveNames_SkipUnknown(sps, names) ==
    [error |-> "",
     list |-> [k \in 1..Len(Known(sps, names)) |-> get_specie_by_name(sps, Known(sps, names)[k])]]

\* [get_specie_by_name(name) for name in names]: the first unknown name raises
ResolveNames(sps, names) ==
    IF \E k \in 1..Len(names) : ~HasName(sps, names[k])
    THEN [error |-> "LookupError", list |-> <<>>]
    ELSE [error |-> "", list |-> [k \in 1..Len(names) |-> get_specie_by_name(sps, names[k])]]

\* [get_index_by_instance(sp) for sp in list]
IndicesOf(sps, list) == [k \in 1..Len(list) |-> get_index_by_instance(sps, list[k])]

\* assert max(indices) < nb: max() of an empty list raises ValueError
CheckIndices(sps, indices) ==
    IF Len(indices) = 0 THEN "ValueError"
    ELSE IF ~(Max(indices) < nb(sps)) THEN "AssertionError"
    ELSE ""

\* for i in reactives_indices: stoechio_coeffs[i] = 1
RECURSIVE FillReactives(_, _)
FillReactives(coeffs, indices) ==
    IF Len(indices) = 0 THEN coeffs
    ELSE FillReactives(Store(coeffs, indices[1], 1), Tail(indices))

\* for sp in products_indices: stoechio_coeffs[i] = 1, where i is the variable
\* the reactives loop left behind (its last index)
RECURSIVE FillProducts(_, _, _)
FillProducts(coeffs, indices, i) ==
    IF Len(indices) = 0 THEN coeffs
    ELSE FillProducts(Store(coeffs, i, 1), Tail(indices), i)

\* the else branch of `if stoechio_coeffs`
DefaultStoechioCoeffs(n, reactives_indices, products_indices) ==
    FillProducts(FillReactives(np_zeros(n), reactives_indices),
                 products_indices,
                 reactives_indices[Len(reactives_indices)])

\* `if stoechio_coeffs`: None and the empty list are both false
Truthy(stoechio_coeffs) == ~IsNone(stoechio_coeffs) /\ Len(Get(stoechio_coeffs)) > 0

Reaction_init(sps, reactives, products, rate_constant, energy_treshold, stoechio_coeffs, spectators) ==
    LET r  == ResolveNames(sps, reactives)
        ri == IndicesOf(sps, r.list)
        p  == ResolveNames(sps, products)
        pi == IndicesOf(sps, p.list)
        Raise(e) == [error |-> e, obj |-> NoReaction]
    IN  IF r.error # "" THEN Raise(r.error)
        ELSE IF CheckIndices(sps, ri) # "" THEN Raise(CheckIndices(sps, ri))
        ELSE IF p.error # "" THEN Raise(p.error)
        ELSE IF CheckIndices(sps, pi) # "" THEN Raise(CheckIndices(sps, pi))
        ELSE [error |-> "",
              obj |-> [cls |-> "Reaction",
                       species |-> sps,
                       reactives |-> r.list,
                       reactives_indices |-> ri,
                       products |-> p.list,
                       products_indices |-> pi,
                       stoechio_coeffs |->
                           IF Truthy(stoechio_coeffs)
                           THEN np_array(Get(stoechio_coeffs))
                           ELSE DefaultStoechioCoeffs(nb(sps), ri, pi),
                       energy_threshold |-> energy_treshold,
                       rate_constant |-> rate_constant,
                       spectators |-> spectators]]

\* ElasticCollisionWithElectron.__init__: super().__init__ with the colliding
\* specie as the only reactive and the only product
Elastic_init(sps, colliding_specie, rate_constant, energy_treshold) ==
    LET base == Reaction_init(sps, <<colliding_specie>>, <<colliding_specie>>,
                              rate_constant, energy_treshold, None, None)
    IN  IF base.error # "" THEN base
        ELSE [base EXCEPT !.obj.cls = "ElasticCollisionWithElectron"]

(***************************************************************************)
(* Reaction.density_change_rate and Reaction.electron_loss_power           *)
(***************************************************************************)
\* One of the two loops of density_change_rate, over a list of Specie:
\*     i = get_index_by_instance(sp); rate[i] = signed_product * stoechio_coeffs[i]
\* Reading stoechio_coeffs[i] past its end raises IndexError.
RECURSIVE AssignRates(_, _, _, _)
AssignRates(obj, list, signed_product, rate) ==
    IF Len(list) = 0 THEN [error |-> "", rate |-> rate]
    ELSE LET i == get_index_by_instance(obj.species, list[1])
         IN  IF ~InRange(obj.stoechio_coeffs, i)
             THEN [error |-> "IndexError", rate |-> <<>>]
             ELSE AssignRates(obj, Tail(list), signed_product,
                              Store(rate, i, signed_product * At(obj.stoechio_coeffs, i)))

\* Mutant of Reaction_density_change_rate: the rate constant gets the full state
Reaction_density_change_rate_FullState(obj, state) ==
    LET K == rate_constant_call(obj.rate_constant, state)
        product == K * np_prod(state, obj.reactives_indices)
        afterReactives == AssignRates(obj, obj.reactives, 0 - product, np_zeros(nb(obj.species)))
        afterProducts == AssignRates(obj, obj.products, product, afterReactives.rate)
    IN  IF afterReactives.error # ""
        THEN [error |-> afterReactives.error, rate |-> <<>>, Klog |-> <<state>>]
        ELSE [error |-> afterProducts.error, rate |-> afterProducts.rate, Klog |-> <<state>>]

\* Mutant of Reaction_density_change_rate: the two loops add to rate[i] (+=)
RECURSIVE AddRates(_, _, _, _)
AddRates(obj, list, signed_product, rate) ==
    IF Len(list) = 0 THEN [error |-> "", rate |-> rate]
    ELSE LET i == get_index_by_instance(obj.species, list[1])
         IN  IF ~InRange(obj.stoechio_coeffs, i)
             THEN [error |-> "IndexError", rate |-> <<>>]
             ELSE AddRates(obj, Tail(list), signed_product,
                           Store(rate, i, At(rate, i) + signed_product * At(obj.stoechio_coeffs, i)))

Reaction_density_change_rate_Summed(obj, state) ==
    LET arg == Slice(state, nb(obj.species))
        K == rate_constant_call(obj.rate_constant, arg)
        product == K * np_prod(state, obj.reactives_indices)
        afterReactives == AddRates(obj, obj.reactives, 0 - product, np_zeros(nb(obj.species)))
        afterProducts == AddRates(obj, obj.products, product, afterReactives.rate)
    IN  IF afterReactives.error # ""
        THEN [error |-> afterReactives.error, rate |-> <<>>, Klog |-> <<arg>>]
        ELSE [error |-> afterProducts.error, rate |-> afterProducts.rate, Klog |-> <<arg>>]

Reaction_density_change_rate(obj, state) ==
    LET arg == Slice(state, nb(obj.species))
        K == rate_constant_call(obj.rate_constant, arg)
        product == K * np_prod(state, obj.reactives_indices)
        afterReactives == AssignRates(obj, obj.reactives, 0 - product, np_zeros(nb(obj.species)))
        afterProducts == AssignRates(obj, obj.products, product, afterReactives.rate)
    IN  IF afterReactives.error # ""
        THEN [error |-> afterReactives.error, rate |-> <<>>, Klog |-> <<arg>>]
        ELSE [error |-> afterProducts.error, rate |-> afterProducts.rate, Klog |-> <<arg>>]

Reaction_electron_loss_power(obj, state) ==
    LET K == rate_constant_call(obj.rate_constant, state)
        power_loss == obj.energy_threshold * K * np_prod(state, obj.reactives_indices)
    IN  [error |-> "", power |-> <<power_loss, 1>>, Klog |-> <<state>>]

(***************************************************************************)
(* ElasticCollisionWithElectron overrides                                  *)
(***************************************************************************)
\* Mutant of Elastic_density_change_rate: the override defers to the base class
Elastic_density_change_rate_Super(obj, state) == Reaction_density_change_rate(obj, state)

Elastic_density_change_rate(obj, state) ==
    [error |-> "", rate |-> np_zeros(nb(obj.species)), Klog |-> <<>>]

\* Mutant of Elastic_electron_loss_power: the heavy-species temperature is read
\* one slot further, at N + nb_atoms + 1
Elastic_electron_loss_power_NextSlot(obj, state) ==
    LET K == rate_constant_call(obj.rate_constant, state)
        n == nb(obj.species)
        heavy == n + obj.reactives[1].nb_atoms + 1
        delta_temp == At(state, n) - At(state, heavy)
        numerator == 3 * m_e * k_B * delta_temp * At(state, 0)
                       * At(state, obj.reactives_indices[1]) * K
    IN  IF ~InRange(state, n) \/ ~InRange(state, heavy)
        THEN [error |-> "IndexError", power |-> <<0, 1>>, Klog |-> <<state>>]
        ELSE [error |-> "", power |-> <<numerator, obj.reactives[1].mass>>, Klog |-> <<state>>]

\* energy_change = 3 * (m_e / mass) * k_B * delta_temp * state[0] * state[index] * K,
\* kept as the exact quotient <<numerator, mass>>
Elastic_electron_loss_power(obj, state) ==
    LET K == rate_constant_call(obj.rate_constant, state)
        n == nb(obj.species)
        heavy == n + obj.reactives[1].nb_atoms
        delta_temp == At(state, n) - At(state, heavy)
        numerator == 3 * m_e * k_B * delta_temp * At(state, 0)
                       * At(state, obj.reactives_indices[1]) * K
    IN  IF ~InRange(state, n) \/ ~InRange(state, heavy)
        THEN [error |-> "IndexError", power |-> <<0, 1>>, Klog |-> <<state>>]
        ELSE [error |-> "", power |-> <<numerator, obj.reactives[1].mass>>, Klog |-> <<state>>]

\* method dispatch on the class of the object
density_change_rate(obj, state) ==
    IF obj.cls = "ElasticCollisionWithElectron"
    THEN Elastic_density_change_rate(obj, state)
    ELSE Reaction_density_change_rate(obj, state)

electron_loss_power(obj, state) ==
    IF obj.cls = "ElasticCollisionWithElectron"
    THEN Elastic_electron_loss_power(obj, state)
    ELSE Reaction_electron_loss_power(obj, state)

(***************************************************************************)
(* Inputs of the caller                                                    *)
(***************************************************************************)
UnknownName == "X"
Names(sps) == {sps[k].name : k \in 1..Len(sps)} \cup {UnknownName}
NameLists(sps) == UNION {[1..k -> Names(sps)] : k \in 0..MaxListLen}

\* explicit coefficient lists <<1, 2, ..., L>>: empty, one shorter than the
\* registry, as long as it and one longer
CoeffLists(sps) == {[k \in 1..L |-> k] : L \in {0} \cup ((nb(sps) - 1)..(nb(sps) + 1))}
CoeffArgs(sps) == {None} \cup {Some(c) : c \in CoeffLists(sps)}
\* no spectators, or a registered name followed by an unregistered one
SpectatorArgs(sps) == {None, Some(<<sps[1].name, UnknownName>>)}
RateConstants == {"K_diss_I2", "K_sum"}
EnergyThresholds == {10}

\* state vectors of length N + NbTemps: densities d0, d0 + 1, ... and
\* temperatures falling, equal or rising from slot to slot
States(sps) ==
    {[k \in 1..(nb(sps) + NbTemps) |->
          IF k <= nb(sps) THEN d0 + (k - 1) ELSE 2 + (k - nb(sps) - 1) * dt] :
       d0 \in 0..MaxDensity, dt \in {-1, 0, 1}}

NoArgs ==
    [cls |-> "none", reactives |-> <<>>, products |-> <<>>, rate_constant |-> "",
     energy_treshold |-> 0, stoechio_coeffs |-> None, spectators |-> None]
NoCall == [op |-> "", state |-> <<>>]
NoResult == [kind |-> "none", error |-> "", rate |-> <<>>, power |-> <<0, 1>>]
Raised(e) == [NoResult EXCEPT !.kind = "error", !.error = e]

(***************************************************************************)
(* The caller                                                              *)
(***************************************************************************)
Init ==
    /\ pc = "start"
    /\ species = PlasmaSpecies
    /\ ctor = NoArgs
    /\ self = NoReaction
    /\ call = NoCall
    /\ result = NoResult
    /\ Klog = <<>>

\* what a constructor call leaves behind
Constructed(r) ==
    /\ self' = r.obj
    /\ pc' = IF r.error = "" THEN "ready" ELSE "raised"
    /\ result' = IF r.error = "" THEN [NoResult EXCEPT !.kind = "object"] ELSE Raised(r.error)
    /\ call' = [NoCall EXCEPT !.op = "__init__"]
    /\ Klog' = <<>>
    /\ UNCHANGED species

\* reac = Reaction(species, reactives, products, rate_constant, energy_treshold, ...)
NewReaction ==
    /\ pc = "start"
    /\ \E reactives \in NameLists(species), products \in NameLists(species),
          rate_constant \in RateConstants, energy_treshold \in EnergyThresholds,
          stoechio_coeffs \in CoeffArgs(species), spectators \in SpectatorArgs(species) :
          /\ ctor' = [cls |-> "Reaction", reactives |-> reactives, products |-> products,
                      rate_constant |-> rate_constant, energy_treshold |-> energy_treshold,
                      stoechio_coeffs |-> stoechio_coeffs, spectators |-> spectators]
          /\ Constructed(Reaction_init(species, reactives, products, rate_constant,
                                       energy_treshold, stoechio_coeffs, spectators))

\* reac = ElasticCollisionWithElectron(species, colliding_specie, rate_constant, energy_treshold)
NewElasticCollision ==
    /\ pc = "start"
    /\ \E colliding_specie \in Names(species),
          rate_constant \in RateConstants, energy_treshold \in EnergyThresholds :
          /\ ctor' = [cls |-> "ElasticCollisionWithElectron",
                      reactives |-> <<colliding_specie>>, products |-> <<colliding_specie>>,
                      rate_constant |-> rate_constant, energy_treshold |-> energy_treshold,
                      stoechio_coeffs |-> None, spectators |-> None]
          /\ Constructed(Elastic_init(species, colliding_specie, rate_constant, energy_treshold))

\* reac.density_change_rate(state)
DensityChangeRate ==
    /\ pc = "ready"
    /\ \E state \in States(species) :
          LET r == density_change_rate(self, state)
          IN  /\ call' = [op |-> "density_change_rate", state |-> state]
              /\ pc' = IF r.error = "" THEN "returned" ELSE "raised"
              /\ result' = IF r.error = "" THEN [NoResult EXCEPT !.kind = "rate", !.rate = r.rate]
                           ELSE Raised(r.error)
              /\ Klog' = r.Klog
    /\ UNCHANGED <<species, ctor, self>>

\* reac.electron_loss_power(state)
ElectronLossPower ==
    /\ pc = "ready"
    /\ \E state \in States(species) :
          LET r == electron_loss_power(self, state)
          IN  /\ call' = [op |-> "electron_loss_power", state |-> state]
              /\ pc' = IF r.error = "" THEN "returned" ELSE "raised"
              /\ result' = IF r.error = "" THEN [NoResult EXCEPT !.kind = "power", !.power = r.power]
                           ELSE Raised(r.error)
              /\ Klog' = r.Klog
    /\ UNCHANGED <<species, ctor, self>>

\* the caller is done with the outcome of a method call and is ready for the next
NextCall ==
    /\ pc \in {"returned", "raised"}
    /\ self.cls # "none"
    /\ pc' = "ready"
    /\ call' = NoCall
    /\ result' = NoResult
    /\ Klog' = <<>>
    /\ UNCHANGED <<species, ctor, self>>

\* the __main__ block: six species, I2 + I4 -> I5 with K_diss_I2, one evaluation.
\* (print(reac) only formats the object and changes nothing.)
SelfTestState == <<1, 2, 3, 4, 5, 6, -181, -182>>
SelfTest ==
    /\ pc = "start"
    /\ LET reac == Reaction_init(SelfTestSpecies, <<"I2", "I4">>, <<"I5">>, "K_diss_I2", 10, None, None)
           r == density_change_rate(reac.obj, SelfTestState)
       IN  /\ species' = SelfTestSpecies
           /\ ctor' = [cls |-> "Reaction", reactives |-> <<"I2", "I4">>, products |-> <<"I5">>,
                       rate_constant |-> "K_diss_I2", energy_treshold |-> 10,
                       stoechio_coeffs |-> None, spectators |-> None]
           /\ self' = reac.obj
           /\ call' = [op |-> "density_change_rate", state |-> SelfTestState]
           /\ result' = [NoResult EXCEPT !.kind = "rate", !.rate = r.rate]
           /\ Klog' = r.Klog
           /\ pc' = "done"

Next ==
    \/ NewReaction
    \/ NewElasticCollision
    \/ DensityChangeRate
    \/ ElectronLossPower
    \/ NextCall
    \/ SelfTest

Spec == Init /\ [][Next]_vars

(***************************************************************************)
(* Vocabulary of the properties                                            *)
(***************************************************************************)
N == nb(species)
Built == self.cls # "none"
AfterInit == call.op = "__init__" /\ pc \in {"ready", "raised"}
AfterDensity == call.op = "density_change_rate" /\ pc \in {"returned", "raised", "done"}
AfterPower == call.op = "electron_loss_power" /\ pc \in {"returned", "raised"}
Returned == pc \in {"returned", "done"}
ReactiveSet == Range(self.reactives_indices)
ProductSet == Range(self.products_indices)
Absent(names) == \E k \in 1..Len(names) : \A j \in 1..Len(species) : species[j].name # names[k]
\* the temperatures of the state vector of the call, written out entry by entry
Temperatures == [k \in 1..(Len(call.state) - N) |-> call.state[N + k]]
\* the product of the densities of the reactives, one factor per list entry
RECURSIVE DensityProduct(_)
DensityProduct(indices) ==
    IF indices = <<>> THEN 1 ELSE call.state[indices[1] + 1] * DensityProduct(Tail(indices))
\* the value of the rate constant on an argument
KOf(arg) == IF self.rate_constant = "K_diss_I2" THEN 2 ELSE Sum(arg)
\* P = K * product of state[i] over reactives_indices, K taken on the temperatures
P == KOf(Temperatures) * DensityProduct(self.reactives_indices)

(***************************************************************************)
(* C1: a Reaction constructed without stoichiometric coefficients has      *)
(* coefficient 1 at every reactive index and at every product index.       *)
(***************************************************************************)
C1_DefaultCoeffsAreOne ==
    (AfterInit /\ Built /\ IsNone(ctor.stoechio_coeffs)) =>
        \A i \in ReactiveSet \cup ProductSet : self.stoechio_coeffs[i + 1] = 1

(***************************************************************************)
(* C2: with default coefficients and disjoint reactives and products,      *)
(* density_change_rate returns -P at every reactive index and +P at every  *)
(* product index; in the self-test the vector is 0, 0, -30, 0, -30, +30.   *)
(***************************************************************************)
C2_DefaultRates ==
    (AfterDensity /\ self.cls = "Reaction" /\ IsNone(ctor.stoechio_coeffs)
         /\ ReactiveSet \cap ProductSet = {}) =>
        /\ Returned
        /\ \A i \in ReactiveSet : result.rate[i + 1] = 0 - P
        /\ \A j \in ProductSet : result.rate[j + 1] = P
        /\ pc = "done" => result.rate = <<0, 0, -30, 0, -30, 30>>

(***************************************************************************)
(* C3: on every constructed Reaction, density_change_rate returns a vector *)
(* of length N that is 0 at every index that is neither a reactive nor a   *)
(* product.                                                                *)
(***************************************************************************)
C3_RateShape ==
    (AfterDensity /\ Built) =>
        /\ Returned
        /\ result.kind = "rate"
        /\ Len(result.rate) = N
        /\ \A i \in 0..(N - 1) : i \notin ReactiveSet \cup ProductSet => result.rate[i + 1] = 0

(***************************************************************************)
(* C4: on an ElasticCollisionWithElectron, density_change_rate returns the *)
(* zero vector of length N for every state, and calls neither the rate     *)
(* constant nor the computation of the base class (which would call it).   *)
(***************************************************************************)
C4_ElasticDensityZero ==
    (AfterDensity /\ self.cls = "ElasticCollisionWithElectron") =>
        /\ Returned
        /\ result.kind = "rate"
        /\ Len(result.rate) = N
        /\ \A k \in 1..N : result.rate[k] = 0
        /\ Klog = <<>>

C4_Witness ==
    /\ AfterDensity /\ self.cls = "ElasticCollisionWithElectron" /\ pc = "returned"
    /\ self.rate_constant = "K_sum"
    /\ \A k \in 1..N : call.state[k] > 0
    /\ result.rate = <<0, 0, 0>>

(***************************************************************************)
(* C5: every constructed Reaction has all its reactive and product indices *)
(* below N and a stoechio_coeffs of length N, whatever was supplied.       *)
(***************************************************************************)
C5_IndicesAndLength ==
    Built =>
        /\ \A i \in ReactiveSet \cup ProductSet : i < N
        /\ Len(self.stoechio_coeffs) = N

C7_UnknownSpectatorFails ==
    (AfterInit /\ ~IsNone(ctor.spectators) /\ Absent(Get(ctor.spectators))) =>
        /\ pc = "raised"
        /\ ~Built

C9_ProductAssignmentWins ==
    (AfterDensity /\ self.cls = "Reaction" /\ Returned) =>
        \A s \in ReactiveSet \cap ProductSet :
            /\ result.rate[s + 1] = P * self.stoechio_coeffs[s + 1]
            /\ result.rate[s + 1] >= 0

C9_Witness ==
    /\ AfterDensity /\ self.cls = "Reaction" /\ pc = "returned"
    /\ \E s \in ReactiveSet \cap ProductSet :
          /\ result.rate[s + 1] > 0
          /\ self.stoechio_coeffs[s + 1] > 1
          /\ result.rate[s + 1] = P * self.stoechio_coeffs[s + 1]

(***************************************************************************)
(* C10: on an ElasticCollisionWithElectron whose colliding specie has      *)
(* nb_atoms = 0, electron_loss_power returns 0 for every state; a result   *)
(* other than 0 needs nb_atoms > 0.                                        *)
(***************************************************************************)
C10_ZeroAtomsZeroPower ==
    (AfterPower /\ self.cls = "ElasticCollisionWithElectron") =>
        /\ self.reactives[1].nb_atoms = 0 => (pc = "returned" /\ result.power[1] = 0)
        /\ (pc = "returned" /\ result.power[1] # 0) => self.reactives[1].nb_atoms > 0

C10_Witness ==
    /\ AfterPower /\ self.cls = "ElasticCollisionWithElectron" /\ pc = "returned"
    /\ self.reactives[1].nb_atoms = 0
    /\ self.rate_constant = "K_sum"
    /\ call.state[1] > 0
    /\ call.state[N + 1] # call.state[N + 2]
    /\ result.power[1] = 0

(***************************************************************************)
(* Supporting facts: what remains true of the code where C1, C2, C3 and C5 *)
(* fail, and the reachability of a non-zero elastic power.                 *)
(***************************************************************************)
\* default coefficients are 1 at every reactive index and 0 at every other
\* index, product or not
Fact_DefaultCoeffs ==
    (Built /\ ~Truthy(ctor.stoechio_coeffs)) =>
        /\ Len(self.stoechio_coeffs) = N
        /\ \A i \in 0..(N - 1) :
              self.stoechio_coeffs[i + 1] = IF i \in ReactiveSet THEN 1 ELSE 0

\* with default coefficients, the reactive entries are -P and the entries of
\* the products that are not reactives are 0
Fact_DefaultRates ==
    (AfterDensity /\ self.cls = "Reaction" /\ ~Truthy(ctor.stoechio_coeffs)
         /\ ReactiveSet \cap ProductSet = {}) =>
        /\ Returned
        /\ \A i \in ReactiveSet : result.rate[i + 1] = 0 - P
        /\ \A j \in ProductSet : result.rate[j + 1] = 0

\* a density_change_rate that returns, returns a vector of length N that is 0
\* outside the reactives and products; it raises exactly when an explicit
\* coefficient list is too short for a reactive or product index
Fact_RateShapeWhenReturned ==
    (AfterDensity /\ Built) =>
        /\ Returned =>
              /\ result.kind = "rate" /\ Len(result.rate) = N
              /\ \A i \in 0..(N - 1) :
                    i \notin ReactiveSet \cup ProductSet => result.rate[i + 1] = 0
        /\ ~Returned <=>
              \E i \in ReactiveSet \cup ProductSet : i >= Len(self.stoechio_coeffs)
        /\ ~Returned => result.error = "IndexError"

\* the indices are below N, and explicit coefficients keep the length supplied
Fact_IndicesBelowN ==
    Built =>
        /\ \A i \in ReactiveSet \cup ProductSet : i >= 0 /\ i < N
        /\ Truthy(ctor.stoechio_coeffs) =>
              Len(self.stoechio_coeffs) = Len(Get(ctor.stoechio_coeffs))

\* an elastic collision with nb_atoms > 0 does return a power other than 0
Fact_NonZeroElasticPower ==
    /\ AfterPower /\ self.cls = "ElasticCollisionWithElectron" /\ pc = "returned"
    /\ self.reactives[1].nb_atoms > 0
    /\ result.power[1] # 0

====
